---- MODULE Spec2Model ----
(***************************************************************************)
(* Hypertrophy tracker: the progression rule (logic.py), the week seeder   *)
(* and the request handlers that mutate the log store (app.py).            *)
(*                                                                         *)
(* Loads and tested maxes are integers in hundredths of a kilogram         *)
(* (2000 = 20.00 kg); Python's None is the integer None (-1); form fields  *)
(* are strings, a field missing from the form is Absent.                   *)
(***************************************************************************)
EXTENDS Integers, Sequences, FiniteSets, TLC

VARIABLES log, st, settings, progress, sessions, today, nposts, arg, ret

vars == <<log, st, settings, progress, sessions, today, nposts, arg, ret>>

None == -1
NoRow == [exists |-> FALSE]
Absent == "<absent>"
ValueError == -2
NoNotes == "<null>"

\* ---------------------------------------------------------------- bounds
MaxPosts == 2

\* ------------------------------------------------------------- logic.py
\* PROGRAM_V1, restricted to four of its entries (days keep their index).
PROGRAM_V1 == <<
  <<"Day 1", <<>> >>,
  <<"Day 2", <<>> >>,
  <<"Day 3", <<>> >>,
  <<"Day 4", << <<"Back Squat", 3, 6, 8, "compound", 500>>,
                <<"Standing Calf Raise", 3, 12, 15, "accessory", 250>>,
                <<"Hip Thrust", 2, 8, 10, "compound", 500>> >> >>,
  <<"Day 5", <<>> >>,
  <<"Day 6", << <<"Hammer Curl", 2, 10, 12, "accessory", 125>> >> >>,
  <<"Day 7", <<>> >>
>>

DAYS == PROGRAM_V1

\* COMPOUND_RM_MAP.get(exercise): the lift key, or "" when unmapped
COMPOUND_RM_MAP(ex) ==
  CASE ex = "Back Squat" -> "squat"
    [] ex = "Hip Thrust" -> "deadlift"
    [] OTHER -> ""

\* Python's round(): n/d rounded to the nearest integer, ties to even (n >= 0)
PyRound(n, d) ==
  LET q == n \div d
      r == n % d
  IN IF 2 * r < d THEN q
     ELSE IF 2 * r > d THEN q + 1
     ELSE IF q % 2 = 0 THEN q ELSE q + 1

round_to_2p5_id(x) == x

round_to_2p5(x) ==
  IF x = None THEN None ELSE PyRound(x, 250) * 250

amrap_threshold(high) ==
  IF high <= 8 THEN 12
  ELSE IF high = 10 THEN 15
  ELSE IF high = 12 THEN 20
  ELSE IF high = 15 THEN 25
  ELSE IF high >= 20 THEN 30
  ELSE 20

\* Python's (x or 0) on an optional integer
Or0(x) == IF x = None THEN 0 ELSE x

compute_new_load_all3(row) ==
  IF row.load_last = None THEN None
  ELSE IF row.category = "compound"
       THEN LET ok == /\ Or0(row.s1) >= row.rep_high
                      /\ Or0(row.s2) >= row.rep_high
                      /\ Or0(row.s3) >= row.rep_high
            IN IF ok THEN round_to_2p5(row.load_last + Or0(row.increment))
                     ELSE round_to_2p5(row.load_last)
       ELSE IF Or0(row.amrap) >= amrap_threshold(row.rep_high)
            THEN round_to_2p5(row.load_last + Or0(row.increment))
            ELSE round_to_2p5(row.load_last)

compute_new_load(row) ==
  IF row.load_last = None THEN None
  ELSE IF row.category = "compound"
       THEN LET ok == /\ Or0(row.s1) >= row.rep_high
                      /\ Or0(row.s2) >= row.rep_high
                      /\ (Or0(row.s3) >= row.rep_high \/ row.sets < 3)
            IN IF ok THEN round_to_2p5(row.load_last + Or0(row.increment))
                     ELSE round_to_2p5(row.load_last)
       ELSE IF Or0(row.amrap) >= amrap_threshold(row.rep_high)
            THEN round_to_2p5(row.load_last + Or0(row.increment))
            ELSE round_to_2p5(row.load_last)


\* --------------------------------------------------------------- app.py
\* float(v) for the form texts the model submits (hundredths); ValueError
\* when Python's float() raises
IntLit(v) ==
  CASE v = "0" -> 0
    [] v = "4" -> 4
    [] v = "8" -> 8
    [] v = "20" -> 20
    [] v = "25" -> 25
    [] v = "45" -> 45
    [] v = "80" -> 80
    [] v = "100" -> 100
    [] v = "140" -> 140
    [] OTHER -> ValueError

PyFloat(v) ==
  IF IntLit(v) # ValueError THEN IntLit(v) * 100
  ELSE CASE v = "21.25" -> 2125
         [] v = "8.5" -> 850
         [] OTHER -> ValueError

\* int(v): only integer literals parse
PyInt(v) == IntLit(v)

\* x / 2.20462262185 on the model's grid (nearest hundredth, factor 2.2046)
LbToKg(x) == PyRound(x * 10000, 22046)

percent_for_week_625(week) == IF week = 1 THEN 625 ELSE 675

\* per mille
percent_for_week(week) == IF week = 1 THEN 550 ELSE 675

\* x is one_rm * pct, in 1/100000 kg; the result is in hundredths
round_kg_to_2p5(x) == PyRound(x, 250000) * 250

seed_from_rms_for_row(row, state, week) ==
  IF row.load_last \notin {None, 0} THEN row
  ELSE IF week \notin {1, 2} THEN row
  ELSE LET rm_key == COMPOUND_RM_MAP(row.exercise)
       IN IF rm_key = "" THEN row
          ELSE LET one_rm == state[rm_key]
               IN IF one_rm = None \/ one_rm = 0 THEN row
                  ELSE [row EXCEPT !.load_last =
                          round_kg_to_2p5(one_rm * percent_for_week(week))]

\* enumerate(DAYS, start=1) flattened: one record per (day, exercise)
RECURSIVE FlattenDays(_)
FlattenDays(d) ==
  IF d > Len(DAYS) THEN <<>>
  ELSE [i \in 1..Len(DAYS[d][2]) |->
          [day |-> d, day_title |-> DAYS[d][1], e |-> DAYS[d][2][i]]]
       \o FlattenDays(d + 1)

ProgramEntries == FlattenDays(1)

\* select(Log).where(week, day, exercise).first(): a row id, 0 when none
FindRowDayTypo(rows, week, day, ex) ==
  LET m == {i \in 1..Len(rows) :
              rows[i].week = week /\ rows[i].day = week /\ rows[i].exercise = ex}
  IN IF m = {} THEN 0 ELSE CHOOSE i \in m : \A j \in m : i <= j

FindRow(rows, week, day, ex) ==
  LET m == {i \in 1..Len(rows) :
              rows[i].week = week /\ rows[i].day = day /\ rows[i].exercise = ex}
  IN IF m = {} THEN 0 ELSE CHOOSE i \in m : \A j \in m : i <= j

NewLog(week, p) ==
  [week |-> week, day |-> p.day, day_title |-> p.day_title,
   exercise |-> p.e[1], sets |-> p.e[2], rep_low |-> p.e[3],
   rep_high |-> p.e[4], category |-> p.e[5], increment |-> p.e[6],
   load_last |-> None, s1 |-> None, s2 |-> None, s3 |-> None,
   amrap |-> None, new_load |-> None, notes |-> NoNotes]

SyncRowReset(row, p) ==
  [row EXCEPT !.day_title = p.day_title, !.sets = p.e[2], !.rep_low = p.e[3],
              !.rep_high = p.e[4], !.category = p.e[5], !.increment = p.e[6],
              !.amrap = IF p.e[5] # "accessory" THEN None ELSE @,
              !.new_load = None]

\* the metadata assignments of the else branch of init_week_rows
SyncRow(row, p) ==
  [row EXCEPT !.day_title = p.day_title, !.sets = p.e[2], !.rep_low = p.e[3],
              !.rep_high = p.e[4], !.category = p.e[5], !.increment = p.e[6],
              !.amrap = IF p.e[5] # "accessory" THEN None ELSE @]

\* one iteration of the loop of init_week_rows, for program entry p
InitRow(rows, state, week, p) ==
  LET i == FindRow(rows, week, p.day, p.e[1])
  IN IF i = 0
     THEN Append(rows, seed_from_rms_for_row(NewLog(week, p), state, week))
     ELSE LET r == SyncRow(rows[i], p)
          IN [rows EXCEPT ![i] =
                IF r.load_last \in {None, 0}
                THEN seed_from_rms_for_row(r, state, week) ELSE r]

RECURSIVE InitFrom(_, _, _, _)
InitFrom(rows, state, week, k) ==
  IF k > Len(ProgramEntries) THEN rows
  ELSE InitFrom(InitRow(rows, state, week, ProgramEntries[k]), state, week, k + 1)

\* get_or_create_state: State(units=..., rms=...) names a column the State
\* model does not have, so creating the missing row raises TypeError
StateRaises(state) == ~state.exists

\* the columns of UniqueConstraint("week", "day", "exercise")
Key(r) == <<r.week, r.day, r.exercise>>

Keys(rows) == {Key(rows[i]) : i \in 1..Len(rows)}

\* the constraint uq_week_day_exercise of the log table
uq_week_day_exercise(rows) == Cardinality(Keys(rows)) = Len(rows)

\* init_week_rows(week, s) through its commit: the rows of the store
\* afterwards, and whether the call raised (nothing is committed then)
init_week_rows(rows, state, week) ==
  IF StateRaises(state) THEN [raised |-> TRUE, rows |-> rows]
  ELSE LET n == InitFrom(rows, state, week, 1)
       IN IF uq_week_day_exercise(n) THEN [raised |-> FALSE, rows |-> n]
          ELSE [raised |-> TRUE, rows |-> rows]


\* ------------------------------------------------- week_view (POST part)
\* request.form.get("row_<id>_<k>")
FormGet(form, rid, k) ==
  IF rid \in DOMAIN form.rows THEN form.rows[rid][k] ELSE Absent

Supplied(v) == v # Absent /\ v # ""

MergeLoadClear(r, v, units) ==
  IF ~Supplied(v) THEN r
  ELSE [r EXCEPT !.load_last =
          IF PyFloat(v) = ValueError THEN None
          ELSE IF units = "kg" THEN PyFloat(v) ELSE LbToKg(PyFloat(v))]

\* the load block of the loop over the week's rows
MergeLoad(r, v, units) ==
  IF ~Supplied(v) \/ PyFloat(v) = ValueError THEN r
  ELSE [r EXCEPT !.load_last =
          IF units = "kg" THEN PyFloat(v) ELSE LbToKg(PyFloat(v))]

MergeRep(r, k, v) ==
  IF ~Supplied(v) THEN r
  ELSE [r EXCEPT ![k] = IF PyInt(v) = ValueError THEN None ELSE PyInt(v)]

\* the dict handed to compute_new_load
RowData(r) ==
  [load_last |-> r.load_last, rep_high |-> r.rep_high,
   increment |-> r.increment, category |-> r.category, sets |-> r.sets,
   s1 |-> r.s1, s2 |-> r.s2, s3 |-> r.s3,
   amrap |-> IF r.category = "accessory" THEN r.s3 ELSE None]

MergeRowStale(r, rid, form, units) ==
  LET r0 == MergeLoad(r, FormGet(form, rid, "load"), units)
      r1 == MergeRep(r0, "s1", FormGet(form, rid, "s1"))
      r2 == MergeRep(r1, "s2", FormGet(form, rid, "s2"))
      r3 == MergeRep(r2, "s3", FormGet(form, rid, "s3"))
  IN [r3 EXCEPT !.new_load = compute_new_load(RowData(r))]

\* the body of the loop over the week's rows, for the row with id rid
MergeRow(r, rid, form, units) ==
  LET r0 == MergeLoad(r, FormGet(form, rid, "load"), units)
      r1 == MergeRep(r0, "s1", FormGet(form, rid, "s1"))
      r2 == MergeRep(r1, "s2", FormGet(form, rid, "s2"))
      r3 == MergeRep(r2, "s3", FormGet(form, rid, "s3"))
  IN [r3 EXCEPT !.new_load = compute_new_load(RowData(r3))]

MergeWeekOnly(rows, week, form, units) ==
  LET sel == SelectSeq(rows, LAMBDA r : r.week = week)
  IN [i \in 1..Len(sel) |-> MergeRow(sel[i], i, form, units)]

MergeWeek(rows, week, form, units) ==
  [i \in 1..Len(rows) |->
     IF rows[i].week = week THEN MergeRow(rows[i], i, form, units) ELSE rows[i]]

\* datetime.fromisoformat(v.replace("Z", "+00:00")), as seconds of the day
FromIso(v) ==
  CASE v = "2025-09-22T10:00:00Z" -> 36000
    [] v = "2025-09-22T11:00:00Z" -> 39600
    [] OTHER -> ValueError

\* the try block that parses the timer fields
Timer(form) ==
  LET hasS == Supplied(form.start)
      hasE == Supplied(form.end)
      sv == IF hasS THEN FromIso(form.start) ELSE None
      sFail == hasS /\ sv = ValueError
      ev == IF sFail \/ ~hasE THEN None ELSE FromIso(form.end)
      eFail == ev = ValueError
      started == IF sFail THEN None ELSE sv
      ended == IF eFail THEN None ELSE ev
  IN [started_at |-> started, ended_at |-> ended,
      duration_seconds |->
        IF started # None /\ ended # None THEN ended - started ELSE None]

SessionIds(ss, week, day, date) ==
  {i \in 1..Len(ss) :
     ss[i].week = week /\ ss[i].day = day /\ ss[i].session_date = date}

SaveDayInsert(ss, week, day_int, date, t) ==
  Append(ss, [week |-> week, day |-> day_int, session_date |-> date,
              started_at |-> t.started_at, ended_at |-> t.ended_at,
              duration_seconds |-> t.duration_seconds])

\* the day-save block; day_int is int(save_day)
SaveDay(ss, week, day_int, date, t) ==
  LET m == SessionIds(ss, week, day_int, date)
  IN IF m = {}
     THEN Append(ss, [week |-> week, day |-> day_int, session_date |-> date,
                      started_at |-> t.started_at, ended_at |-> t.ended_at,
                      duration_seconds |-> t.duration_seconds])
     ELSE LET i == CHOOSE x \in m : TRUE
          IN [ss EXCEPT ![i] =
                [@ EXCEPT !.started_at =
                            IF t.started_at # None THEN t.started_at ELSE @,
                          !.ended_at =
                            IF t.ended_at # None THEN t.ended_at ELSE @,
                          !.duration_seconds =
                            IF t.duration_seconds # None
                            THEN t.duration_seconds ELSE @]]

\* the bodyweight block: progress maps a week to its bodyweight (None: no row)
SaveBodyweight(pg, week, bw, units) ==
  IF ~Supplied(bw) \/ PyFloat(bw) = ValueError THEN pg
  ELSE [pg EXCEPT ![week] =
          IF units = "kg" THEN PyFloat(bw) ELSE LbToKg(PyFloat(bw))]


\* ------------------------------------------------------------ the store
ISO1 == "2025-09-22T10:00:00Z"
ISO2 == "2025-09-22T11:00:00Z"

\* the week forms the model submits: the timer and bodyweight fields, and
\* for each exercise the load and rep fields of its row
WeekForms == {
  [save_day |-> "4", start |-> ISO1, end |-> ISO2, bodyweight |-> "80",
   fields |-> [ex \in {"Back Squat", "Hammer Curl", "Standing Calf Raise"} |->
     CASE ex = "Back Squat" ->
            [load |-> "100", s1 |-> "8", s2 |-> "8", s3 |-> "8"]
       [] ex = "Hammer Curl" ->
            [load |-> "21.25", s1 |-> "25", s2 |-> "25", s3 |-> Absent]
       [] ex = "Standing Calf Raise" ->
            [load |-> "20", s1 |-> "", s2 |-> "", s3 |-> "25"]]],
  [save_day |-> Absent, start |-> "garbage", end |-> ISO2, bodyweight |-> "abc",
   fields |-> [ex \in {"Back Squat", "Hammer Curl", "Hip Thrust"} |->
     CASE ex = "Back Squat" ->
            [load |-> "abc", s1 |-> "x", s2 |-> Absent, s3 |-> Absent]
       [] ex = "Hammer Curl" ->
            [load |-> "21.25", s1 |-> "8", s2 |-> "8.5", s3 |-> "x"]
       [] ex = "Hip Thrust" ->
            [load |-> "0", s1 |-> "8", s2 |-> "8", s3 |-> Absent]]],
  [save_day |-> "x", start |-> ISO1, end |-> Absent, bodyweight |-> "80",
   fields |-> [ex \in {"Hip Thrust"} |->
            [load |-> "100", s1 |-> "25", s2 |-> "25", s3 |-> Absent]]]
}

\* the form as the browser sends it: the row fields are named by the ids of
\* the week's rows the page showed
Rendered(f, rows, week) ==
  [save_day |-> f.save_day, start |-> f.start, end |-> f.end,
   bodyweight |-> f.bodyweight,
   rows |-> [i \in {j \in 1..Len(rows) : rows[j].week = week
                                        /\ rows[j].exercise \in DOMAIN f.fields}
               |-> f.fields[rows[i].exercise]]]

\* the tested-max forms the model submits
RmForms == {
  [bench_rm |-> "", squat_rm |-> "140", deadlift_rm |-> "100", ohp_rm |-> Absent],
  [bench_rm |-> "", squat_rm |-> "abc", deadlift_rm |-> "", ohp_rm |-> Absent]
}

\* weeks asked for in the URL: the cases the code tells apart (week 1, week 2,
\* a later week, and 0 and 13 out of range)
WeekInputs == {0, 1, 2, 3, 13}

\* the weeks in range among them
SeedWeeks == {1, 2, 3}

StateRow(u, sq, dl) ==
  [exists |-> TRUE, units |-> u, bench |-> None, squat |-> sq,
   deadlift |-> dl, ohp |-> None]

\* a week 1 row written under an earlier revision of the program table
LegacyLog == <<
  [week |-> 1, day |-> 4, day_title |-> "Day 4 (old)", exercise |-> "Hip Thrust",
   sets |-> 3, rep_low |-> 12, rep_high |-> 15, category |-> "accessory",
   increment |-> 250, load_last |-> None, s1 |-> 12, s2 |-> 12, s3 |-> 20,
   amrap |-> 20, new_load |-> None, notes |-> "felt heavy"]
>>

Init ==
  /\ \/ /\ st \in {NoRow, StateRow("kg", 14000, 10000),
                   StateRow("lb", 14000, None)}
        /\ log = <<>>
     \/ /\ st = StateRow("kg", 14000, 10000)
        /\ log = LegacyLog
  /\ settings = NoRow
  /\ progress = [w \in 1..12 |-> None]
  /\ sessions = <<>>
  /\ today = 1
  /\ nposts = 0
  /\ arg = None
  /\ ret = None

\* GET /week/<week>
WeekGet(week) ==
  /\ log' = IF week < 1 \/ week > 12 \/ StateRaises(st) THEN log
            ELSE init_week_rows(log, st, week).rows
  /\ UNCHANGED <<st, settings, progress, sessions, today, nposts, arg, ret>>

\* what POST /week/<week> commits, and whether the request raised
WeekPostResult(rows, ss, pg, state, date, week, form) ==
  LET same == [log |-> rows, sessions |-> ss, progress |-> pg]
      seeded == init_week_rows(rows, state, week)
      dayGiven == Supplied(form.save_day)
      dayBad == dayGiven /\ PyInt(form.save_day) = ValueError
      day_int == PyInt(form.save_day)
      many == dayGiven /\ ~dayBad
              /\ Cardinality(SessionIds(ss, week, day_int, date)) > 1
  IN IF week < 1 \/ week > 12 THEN same @@ [raised |-> FALSE]
     ELSE IF StateRaises(state) \/ seeded.raised THEN same @@ [raised |-> TRUE]
     ELSE IF dayBad \/ many
     THEN [same EXCEPT !.log = seeded.rows] @@ [raised |-> TRUE]
     ELSE [log |-> MergeWeek(seeded.rows, week, form, state.units),
           sessions |-> IF dayGiven
                        THEN SaveDay(ss, week, day_int, date, Timer(form))
                        ELSE ss,
           progress |-> SaveBodyweight(pg, week, form.bodyweight, state.units),
           raised |-> FALSE]

\* POST /week/<week> with form f, filled in on the page a GET rendered
WeekPost(week, f) ==
  /\ nposts < MaxPosts
  /\ nposts' = nposts + 1
  /\ LET res == WeekPostResult(log, sessions, progress, st, today, week,
                               Rendered(f, log, week))
     IN /\ log' = res.log
        /\ sessions' = res.sessions
        /\ progress' = res.progress
  /\ UNCHANGED <<st, settings, today, arg, ret>>

\* s.get(Settings, 1), created when missing
GetSettings(row) ==
  IF row.exists THEN row
  ELSE [exists |-> TRUE, units |-> "kg", bench |-> None, squat |-> None,
        deadlift |-> None, ohp |-> None]

\* p(name) followed by to_kg: None when the field is missing or malformed
RmValue(row, v) ==
  IF ~Supplied(v) \/ PyFloat(v) = ValueError THEN None
  ELSE IF row.units = "kg" THEN PyFloat(v) ELSE LbToKg(PyFloat(v))

SaveRms(row, form) ==
  LET set(cur, v) == IF RmValue(row, v) # None THEN RmValue(row, v) ELSE cur
  IN [row EXCEPT !.bench = set(@, form.bench_rm),
                 !.squat = set(@, form.squat_rm),
                 !.deadlift = set(@, form.deadlift_rm),
                 !.ohp = set(@, form.ohp_rm)]

\* GET /rm-test
RmTestGet ==
  /\ settings' = GetSettings(settings)
  /\ UNCHANGED <<log, st, progress, sessions, today, nposts, arg, ret>>

\* POST /rm-test: exceptions of the re-seeding are swallowed
RmTestPost(form) ==
  /\ settings' = SaveRms(GetSettings(settings), form)
  /\ LET w1 == init_week_rows(log, st, 1)
         w2 == init_week_rows(w1.rows, st, 2)
     IN log' = IF w1.raised THEN log ELSE w2.rows
  /\ UNCHANGED <<st, progress, sessions, today, nposts, arg, ret>>

Next ==
  \/ \E week \in WeekInputs : WeekGet(week)
  \/ \E week \in SeedWeeks, f \in WeekForms : WeekPost(week, f)
  \/ RmTestGet
  \/ \E form \in RmForms : RmTestPost(form)

Spec == Init /\ [][Next]_vars


\* ------------------------------------------- the progression rule alone
Pending == -3

RepValues == {None, 0, 6, 8, 12}
AmrapValues == {None, 11, 12, 14, 15, 19, 20, 22, 24, 25, 29, 30}
LoadValues == {None, 0, 2000, 2125, 2250, 10000}

CompoundInputs ==
  [load_last : LoadValues, rep_high : {6, 8, 10}, increment : {0, 125, 250, 500},
   category : {"compound"}, sets : {2, 3},
   s1 : RepValues, s2 : RepValues, s3 : RepValues, amrap : {None}]

AccessoryInputs ==
  [load_last : LoadValues, rep_high : {6, 8, 9, 10, 12, 15, 18, 20, 25},
   increment : {125, 250}, category : {"accessory"}, sets : {3},
   s1 : {None}, s2 : {None}, s3 : {None}, amrap : AmrapValues]

InitPure ==
  /\ arg \in CompoundInputs \cup AccessoryInputs
  /\ ret = Pending
  /\ log = <<>>
  /\ st = NoRow
  /\ settings = NoRow
  /\ progress = [w \in 1..12 |-> None]
  /\ sessions = <<>>
  /\ today = 1
  /\ nposts = 0

\* one call of compute_new_load on the row dict arg
ComputeNewLoad ==
  /\ ret = Pending
  /\ ret' = compute_new_load(arg)
  /\ UNCHANGED <<log, st, settings, progress, sessions, today, nposts, arg>>

NextPure == ComputeNewLoad

SpecPure == InitPure /\ [][NextPure]_vars

\* C1: for a compound row, compute_new_load returns the rounded load plus
\* increment when s1 and s2 reach repHigh and s3 does too or fewer than 3 sets
\* are prescribed, and the rounded load itself in every other case (absent reps
\* count as 0); where the two candidates differ the increased one is returned
\* exactly when the condition holds.  For any row the result is absent exactly
\* when the used load is absent.
C1_CompoundRule ==
  (ret # Pending) =>
    /\ (ret = None) <=> (arg.load_last = None)
    /\ (arg.category = "compound" /\ arg.load_last # None) =>
         LET c1 == IF arg.s1 = None THEN 0 ELSE arg.s1
             c2 == IF arg.s2 = None THEN 0 ELSE arg.s2
             c3 == IF arg.s3 = None THEN 0 ELSE arg.s3
             cond == c1 >= arg.rep_high /\ c2 >= arg.rep_high
                     /\ (c3 >= arg.rep_high \/ arg.sets < 3)
             up == round_to_2p5(arg.load_last + arg.increment)
             same == round_to_2p5(arg.load_last)
         IN /\ cond => ret = up
            /\ ~cond => ret = same
            /\ (up # same) => ((ret = up) <=> cond)

C1_Witness ==
  /\ ret # Pending
  /\ arg.category = "compound" /\ arg.sets = 2 /\ arg.load_last = 2125
  /\ arg.s1 = 8 /\ arg.s2 = 8 /\ arg.s3 = None /\ arg.rep_high = 8
  /\ arg.increment = 250
  /\ ret = 2500

\* the table of section 4.4
ThresholdTable(high) ==
  CASE high <= 8 -> 12
    [] high = 10 -> 15
    [] high = 12 -> 20
    [] high = 15 -> 25
    [] high >= 20 -> 30
    [] OTHER -> 20

\* C2: for an accessory row whose used load is a multiple of 2.5 kg, with
\* increment 1.25 or 2.5, compute_new_load returns more than the re-rounded
\* load if and only if the AMRAP count reaches the threshold of the table.
C2_AccessoryIncreasesIff ==
  (/\ ret # Pending /\ arg.category = "accessory"
   /\ arg.load_last # None /\ arg.load_last % 250 = 0) =>
     LET amr == IF arg.amrap = None THEN 0 ELSE arg.amrap
     IN (ret > round_to_2p5(arg.load_last)) <=> (amr >= ThresholdTable(arg.rep_high))

\* C3: accessory row, repHigh 12, used load 20 kg, increment 1.25 kg:
\* AMRAP 22 gives 21.25 kg and AMRAP 15 gives 20 kg.
C3_Scenario3 ==
  (/\ ret # Pending /\ arg.category = "accessory" /\ arg.rep_high = 12
   /\ arg.load_last = 2000 /\ arg.increment = 125) =>
     /\ (arg.amrap = 22) => (ret = 2125)
     /\ (arg.amrap = 15) => (ret = 2000)


\* ------------------------------------------------------ the week seeder
Blank(v) == v = None \/ v = 0

\* C4: seeding a week twice in a row, with the program table and the tested
\* maxes unchanged, makes no difference the second time: the second call does
\* not raise, leaves every row as the first call left it and adds none, and no
\* two rows share (week, day, exercise).
C4_SeedIdempotent ==
  \A w \in SeedWeeks :
    LET r1 == init_week_rows(log, st, w)
        r2 == init_week_rows(r1.rows, st, w)
    IN ~r1.raised =>
         /\ ~r2.raised
         /\ r2.rows = r1.rows
         /\ \A i, j \in 1..Len(r1.rows) :
              Key(r1.rows[i]) = Key(r1.rows[j]) => i = j

C4_Witness ==
  /\ \E i \in 1..Len(log) :
       /\ log[i].week = 1 /\ log[i].exercise = "Back Squat"
       /\ log[i].load_last = 7750
  /\ \E i \in 1..Len(log) : log[i].week = 3 /\ log[i].s1 # None
  /\ Len(log) = 8

\* C5: seeding leaves s1, s2, s3, new_load and notes of every existing row
\* unchanged, and load_last too when it is present and non-zero; it only
\* rewrites the metadata, clears amrap of a row that is not an accessory, and
\* fills a load_last that is absent or zero.  Rows keep their key and place.
C5_SeedNonDestructive ==
  \A w \in SeedWeeks :
    LET r == init_week_rows(log, st, w).rows
    IN /\ Len(r) >= Len(log)
       /\ \A i \in 1..Len(log) :
            /\ r[i].s1 = log[i].s1 /\ r[i].s2 = log[i].s2 /\ r[i].s3 = log[i].s3
            /\ r[i].new_load = log[i].new_load
            /\ r[i].notes = log[i].notes
            /\ Key(r[i]) = Key(log[i])
            /\ ~Blank(log[i].load_last) => r[i].load_last = log[i].load_last
            /\ \/ r[i].amrap = log[i].amrap
               \/ r[i].category # "accessory" /\ r[i].amrap = None

\* a row submitted with load 0 and reps, whose load a later seeding filled
C5_Witness ==
  \E i \in 1..Len(log) :
    /\ log[i].week = 2 /\ log[i].exercise = "Hip Thrust"
    /\ log[i].s1 = 8 /\ log[i].s2 = 8 /\ log[i].new_load = 0
    /\ log[i].load_last = 6750

\* the rows of week w that seeding creates or finds with an absent load
SeededBlank(before, after, w) ==
  {i \in 1..Len(after) :
     after[i].week = w /\ (i > Len(before) \/ before[i].load_last = None)}

\* C6 (as amended): seeding a week 1 or week 2 row whose load is absent and
\* whose exercise maps to a lift with a known tested max sets the load to
\* the tested max times pct(week), rounded to the nearest 2.5 kg, with
\* pct(1) = 0.55 and pct(2) = 0.675; a squat max of 140 kg seeds the week 1
\* Back Squat row with 77.5 kg.
C6_SeedFromTestedMax ==
  [][\A w \in {1, 2} :
       (st.exists /\ nposts' = nposts /\ WeekGet(w)) =>
         \A i \in SeededBlank(log, log', w) :
           LET k == COMPOUND_RM_MAP(log'[i].exercise)
               pct == IF w = 1 THEN 550 ELSE 675
           IN (k # "" /\ st[k] # None) =>
                /\ log'[i].load_last = PyRound(st[k] * pct, 250000) * 250
                /\ (w = 1 /\ k = "squat" /\ st[k] = 14000) =>
                     log'[i].load_last = 7750]_vars

\* C6 as written: pct(1) = 0.625, and 140 kg seeds 87.5 kg
C6_Original ==
  [][\A w \in {1, 2} :
       (st.exists /\ nposts' = nposts /\ WeekGet(w)) =>
         \A i \in SeededBlank(log, log', w) :
           LET k == COMPOUND_RM_MAP(log'[i].exercise)
               pct == IF w = 1 THEN 625 ELSE 675
           IN (k # "" /\ st[k] # None) =>
                /\ log'[i].load_last = PyRound(st[k] * pct, 250000) * 250
                /\ (w = 1 /\ k = "squat" /\ st[k] = 14000) =>
                     log'[i].load_last = 8750]_vars

C6_Witness ==
  /\ st.exists /\ st.squat = 14000 /\ st.deadlift = 10000
  /\ \E i \in 1..Len(log) :
       /\ log[i].week = 1 /\ log[i].exercise = "Back Squat"
       /\ log[i].load_last = 7750
  /\ \E i \in 1..Len(log) :
       /\ log[i].week = 2 /\ log[i].exercise = "Hip Thrust"
       /\ log[i].load_last = 6750

\* C7: seeding a week after week 2 sets the absent load of a row to the
\* next-week load computed on the previous week's row of the same day and
\* exercise when that is present, else to that row's used load.
C7_CarryForward ==
  [][(st.exists /\ nposts' = nposts /\ WeekGet(3)) =>
       \A i \in SeededBlank(log, log', 3) : \A j \in 1..Len(log) :
         (/\ log[j].week = 2 /\ log[j].day = log'[i].day
          /\ log[j].exercise = log'[i].exercise) =>
            log'[i].load_last =
              IF log[j].new_load # None THEN log[j].new_load
              ELSE log[j].load_last]_vars

\* ------------------------------------------------------ week submission
\* C8: on a week submission a load or rep field whose text does not parse as
\* a number is treated as absent: the request does not raise and the row keeps
\* the value it had for that field.
C8_MalformedKeepsPrior ==
  [][\A w \in SeedWeeks : \A f \in WeekForms :
       (/\ st.exists /\ nposts' # nposts
        /\ (Supplied(f.save_day) => PyInt(f.save_day) # ValueError)
        /\ WeekPost(w, f)) =>
         LET form == Rendered(f, log, w)
             before == init_week_rows(log, st, w).rows
         IN /\ ~WeekPostResult(log, sessions, progress, st, today, w, form).raised
            /\ \A i \in DOMAIN form.rows :
                 /\ (Supplied(form.rows[i].load)
                     /\ PyFloat(form.rows[i].load) = ValueError) =>
                      log'[i].load_last = before[i].load_last
                 /\ \A k \in {"s1", "s2", "s3"} :
                      (Supplied(form.rows[i][k])
                       /\ PyInt(form.rows[i][k]) = ValueError) =>
                        log'[i][k] = log[i][k]]_vars

\* C9: the log store never holds two rows with the same (week, day,
\* exercise), and no request removes a key: the set of keys only grows.
C9_UniqueAndGrowing ==
  /\ [](\A i, j \in 1..Len(log) : Key(log[i]) = Key(log[j]) => i = j)
  /\ [][Keys(log) \subseteq Keys(log')]_vars

C9_Witness ==
  /\ Len(log) = 12
  /\ nposts > 0
  /\ settings.exists /\ settings.squat = 14000
  /\ \E i \in 1..Len(log) : log[i].new_load # None

\* C10: every stored next-week load is a multiple of 2.5 kg, and so is every
\* load that seeding a week derives from a tested max.
C10_LoadsOnGrid ==
  /\ \A i \in 1..Len(log) :
       log[i].new_load # None => log[i].new_load % 250 = 0
  /\ \A w \in SeedWeeks :
       LET r == init_week_rows(log, st, w).rows
       IN \A i \in 1..Len(r) :
            (i > Len(log) \/ r[i].load_last # log[i].load_last) =>
              (r[i].load_last = None \/ r[i].load_last % 250 = 0)

C10_Witness ==
  /\ \E i \in 1..Len(log) :
       /\ log[i].load_last = 2125 /\ log[i].new_load = 2000
  /\ \E i \in 1..Len(log) :
       /\ log[i].exercise = "Hip Thrust" /\ log[i].load_last = 5500
  /\ \E i \in 1..Len(log) :
       /\ log[i].exercise = "Back Squat" /\ log[i].load_last = 10000
       /\ log[i].new_load = 10500


\* ------------------------------------------------- the 1RM estimator alone
\* tested maxes and estimates of this part are in 1/3000 kg, so that
\* weight * (1 + reps/30) is the integer weight * (30 + reps) for a weight in
\* hundredths of a kg
Kg(x) == x * 3000

\* epley_1rm(weight_kg, reps), weight_kg in hundredths of a kg
epley_1rm(weight_kg, reps) ==
  IF weight_kg = None \/ weight_kg <= 0 \/ reps = None \/ reps < 1 THEN 0
  ELSE weight_kg * (30 + reps)

\* ESTIMATED_RM_MAP.get(exercise): the lift key, or "" when unmapped
ESTIMATED_RM_MAP(ex) ==
  CASE ex = "Back Squat" -> "squat"
    [] ex = "Flat Barbell Bench Press" -> "bench"
    [] ex = "Close-Grip Bench Press" -> "bench"
    [] ex = "Overhead Press (Barbell/DB)" -> "ohp"
    [] ex = "Seated DB Overhead Press" -> "ohp"
    [] ex = "Deadlift" -> "deadlift"
    [] OTHER -> ""

LiftKeys == <<"bench", "squat", "deadlift", "ohp">>

Max2(a, b) == IF a >= b THEN a ELSE b

\* the first loop of update_1rms_from_rows from row k on: best_est after it
RECURSIVE BestEst(_, _, _)
BestEst(best_est, log_rows, k) ==
  IF k > Len(log_rows) THEN best_est
  ELSE LET r == log_rows[k]
           rm_key == ESTIMATED_RM_MAP(r.exercise)
           max_reps == Max2(Or0(r.s1), Max2(Or0(r.s2), Or0(r.s3)))
           est == epley_1rm(r.load_last, max_reps)
       IN IF rm_key = "" \/ max_reps = 0 \/ r.load_last \in {None, 0}
          THEN BestEst(best_est, log_rows, k + 1)
          ELSE BestEst(IF est > best_est[rm_key]
                       THEN [best_est EXCEPT ![rm_key] = est] ELSE best_est,
                       log_rows, k + 1)

\* the second loop from key k on: the settings object and pr_list after it
RECURSIVE ComparePRs(_, _, _, _)
ComparePRs(settings_obj, pr_list, best_est, k) ==
  IF k > Len(LiftKeys) THEN [settings |-> settings_obj, pr_list |-> pr_list]
  ELSE LET key == LiftKeys[k]
           current == Or0(settings_obj[key])
       IN IF best_est[key] > current
          THEN ComparePRs([settings_obj EXCEPT ![key] = best_est[key]],
                          Append(pr_list, <<key, current, best_est[key]>>),
                          best_est, k + 1)
          ELSE ComparePRs(settings_obj, pr_list, best_est, k + 1)

RECURSIVE ComparePRs_ge(_, _, _, _)
ComparePRs_ge(settings_obj, pr_list, best_est, k) ==
  IF k > Len(LiftKeys) THEN [settings |-> settings_obj, pr_list |-> pr_list]
  ELSE LET key == LiftKeys[k]
           current == Or0(settings_obj[key])
       IN IF best_est[key] >= current
          THEN ComparePRs_ge([settings_obj EXCEPT ![key] = best_est[key]],
                             Append(pr_list, <<key, current, best_est[key]>>),
                             best_est, k + 1)
          ELSE ComparePRs_ge(settings_obj, pr_list, best_est, k + 1)

update_1rms_from_rows_ge(settings_obj, log_rows) ==
  ComparePRs_ge(settings_obj, <<>>,
                BestEst([key \in {"bench", "squat", "deadlift", "ohp"} |-> 0],
                        log_rows, 1), 1)

\* update_1rms_from_rows: the settings object afterwards and the returned list
update_1rms_from_rows(settings_obj, log_rows) ==
  ComparePRs(settings_obj, <<>>,
             BestEst([key \in {"bench", "squat", "deadlift", "ohp"} |-> 0],
                     log_rows, 1), 1)

\* a log row of the submitted week, as far as the estimator reads it
EstRow(ex, load, a, b, c) ==
  [exercise |-> ex, load_last |-> load, s1 |-> a, s2 |-> b, s3 |-> c]

\* the rows the estimator is run on are drawn from this list, in its order
RowPool == <<
  EstRow("Back Squat", 10000, 5, None, None),
  EstRow("Back Squat", 10000, 3, 8, 6),
  EstRow("Back Squat", 12000, 1, 0, None),
  EstRow("Flat Barbell Bench Press", 6000, 10, 10, 8),
  EstRow("Close-Grip Bench Press", 5000, None, None, 12),
  EstRow("Hammer Curl", 20000, 10, 10, None),
  EstRow("Deadlift", 0, 5, 5, 5),
  EstRow("Deadlift", 15000, None, 0, None),
  EstRow("Overhead Press (Barbell/DB)", None, 5, 5, 5),
  EstRow("Seated DB Overhead Press", 4000, 6, None, None)
>>

\* the rows of RowPool at the positions in sel, in order
RECURSIVE PickRows(_, _)
PickRows(sel, k) ==
  IF k > Len(RowPool) THEN <<>>
  ELSE (IF k \in sel THEN <<RowPool[k]>> ELSE <<>>) \o PickRows(sel, k + 1)

EstSettings ==
  [bench : {None, Kg(70), Kg(80)},
   squat : {None, Kg(110), 350000, Kg(130)},
   deadlift : {None, Kg(100)},
   ohp : {None, 0}]

\* ret before the call
NotCalled == [called |-> FALSE]

InitEst ==
  /\ \E sel \in SUBSET (1..Len(RowPool)) : \E so \in EstSettings :
       arg = [settings |-> so, rows |-> PickRows(sel, 1)]
  /\ ret = NotCalled
  /\ log = <<>>
  /\ st = NoRow
  /\ settings = NoRow
  /\ progress = [w \in 1..12 |-> None]
  /\ sessions = <<>>
  /\ today = 1
  /\ nposts = 0

\* one call of update_1rms_from_rows(arg.settings, arg.rows)
Update1Rms ==
  /\ ret = NotCalled
  /\ ret' = update_1rms_from_rows(arg.settings, arg.rows)
  /\ UNCHANGED <<log, st, settings, progress, sessions, today, nposts, arg>>

NextEst == Update1Rms

SpecEst == InitEst /\ [][NextEst]_vars

\* w * (1 + reps/30) for w > 0 and reps >= 1, else no estimate (0)
Epley(w, reps) ==
  IF w # None /\ w > 0 /\ reps # None /\ reps >= 1 THEN w * (30 + reps) ELSE 0

\* the estimates of the rows mapped to lift key k: the row's used load paired
\* with the highest of its s1, s2, s3
Estimates(rows, k) ==
  {0} \cup
  {Epley(rows[i].load_last,
         CHOOSE m \in {Or0(rows[i].s1), Or0(rows[i].s2), Or0(rows[i].s3)} :
           \A n \in {Or0(rows[i].s1), Or0(rows[i].s2), Or0(rows[i].s3)} : m >= n) :
     i \in {j \in 1..Len(rows) : ESTIMATED_RM_MAP(rows[j].exercise) = k}}

MaxEstimate(rows, k) ==
  CHOOSE m \in Estimates(rows, k) : \A n \in Estimates(rows, k) : m >= n

\* C11: update_1rms_from_rows changes a lift's tested max if and only if the
\* maximum Epley estimate over the rows mapped to that lift (highest of
\* s1/s2/s3 with the row's used load) exceeds the stored max (an untested lift
\* counts as 0); exactly then the stored max becomes that estimate and the
\* returned list holds the entry (lift key, old value, new value), once.  No
\* max changes without an entry and no max is lowered.
C11_PersonalRecords ==
  (ret # NotCalled) =>
    /\ \A k \in {"bench", "squat", "deadlift", "ohp"} :
         LET est == MaxEstimate(arg.rows, k)
             old == Or0(arg.settings[k])
             entries == {i \in 1..Len(ret.pr_list) : ret.pr_list[i][1] = k}
         IN /\ (ret.settings[k] # arg.settings[k]) <=> (est > old)
            /\ (est > old) => /\ ret.settings[k] = est
                              /\ Cardinality(entries) = 1
                              /\ \A i \in entries : ret.pr_list[i] = <<k, old, est>>
            /\ ~(est > old) => entries = {}
            /\ Or0(ret.settings[k]) >= old
    /\ \A i \in 1..Len(ret.pr_list) :
         ret.pr_list[i][1] \in {"bench", "squat", "deadlift", "ohp"}

\* squat: 116.67 kg estimated against 110 kg stored; bench: first tested
\* value; deadlift and ohp rows without an estimate
C11_Witness ==
  /\ ret # NotCalled
  /\ arg.settings.squat = Kg(110) /\ arg.settings.bench = None
  /\ arg.settings.deadlift = Kg(100)
  /\ ret.settings.squat = 350000 /\ ret.settings.bench = 240000
  /\ ret.settings.deadlift = Kg(100)
  /\ ret.pr_list = << <<"bench", 0, 240000>>, <<"squat", Kg(110), 350000>> >>


\* -------------------------------------------------- tested-max submission
\* the form field of a lift key
RmField(form, k) ==
  CASE k = "bench" -> form.bench_rm
    [] k = "squat" -> form.squat_rm
    [] k = "deadlift" -> form.deadlift_rm
    [] k = "ohp" -> form.ohp_rm

\* C12: after a tested-max submission every week 1 and week 2 row whose
\* exercise maps to a lift the form supplied a value for, and whose load was
\* absent or zero (or which the submission created), holds the suggested load
\* derived from the submitted value: that value times pct(week), rounded to
\* 2.5 kg.
C12_ReseedFromSubmitted ==
  [][\A form \in RmForms :
       (nposts' = nposts /\ RmTestPost(form)) =>
         \A i \in 1..Len(log') :
           LET k == COMPOUND_RM_MAP(log'[i].exercise)
               v == IF k = "" THEN None
                    ELSE RmValue(GetSettings(settings), RmField(form, k))
           IN (/\ log'[i].week \in {1, 2}
               /\ v # None
               /\ (i > Len(log) \/ Blank(log[i].load_last))) =>
                log'[i].load_last =
                  round_kg_to_2p5(v * percent_for_week(log'[i].week))]_vars


\* ---------------------------------------------------------- day sessions
MaxDate == 2

\* week forms that exercise the day-save block: no row field, no bodyweight
SessForm(d, a, b) ==
  [save_day |-> d, start |-> a, end |-> b, bodyweight |-> Absent,
   fields |-> [ex \in {} |-> Absent]]

SessForms == {
  SessForm("4", ISO1, ISO2),
  SessForm("4", Absent, ISO2),
  SessForm("4", ISO2, ""),
  SessForm("4", "garbage", ISO1),
  SessForm("8", ISO1, Absent),
  SessForm(Absent, ISO1, ISO2)
}

SessWeeks == {1, 2}

InitSess ==
  /\ st = StateRow("kg", 14000, 10000)
  /\ log = <<>>
  /\ settings = NoRow
  /\ progress = [w \in 1..12 |-> None]
  /\ sessions = <<>>
  /\ today = 1
  /\ nposts = 0
  /\ arg = None
  /\ ret = None

\* datetime.now(timezone.utc).date() moves on to the next day
Tick ==
  /\ today < MaxDate
  /\ today' = today + 1
  /\ UNCHANGED <<log, st, settings, progress, sessions, nposts, arg, ret>>

NextSess ==
  \/ \E week \in SessWeeks, f \in SessForms : WeekPost(week, f)
  \/ Tick

SpecSess == InitSess /\ [][NextSess]_vars

SessKey(x) == <<x.week, x.day, x.session_date>>

\* C13: no two WorkoutSession rows share (week, day, date).  A day-save
\* inserts one session for its triple when none exists, leaving the others as
\* they are; otherwise it adds none and changes only the session of that
\* triple, and of it only timer fields the form supplied (the duration only
\* when both times were supplied).  A submission without save_day leaves the
\* sessions alone.
C13_OneSessionPerDay ==
  /\ [](\A i, j \in 1..Len(sessions) :
          SessKey(sessions[i]) = SessKey(sessions[j]) => i = j)
  /\ [][\A week \in SessWeeks : \A f \in SessForms :
          (nposts' # nposts /\ WeekPost(week, f)) =>
            IF ~Supplied(f.save_day) THEN sessions' = sessions
            ELSE LET d == PyInt(f.save_day)
                     key == <<week, d, today>>
                     m == {i \in 1..Len(sessions) : SessKey(sessions[i]) = key}
                 IN IF m = {}
                    THEN /\ Len(sessions') = Len(sessions) + 1
                         /\ SubSeq(sessions', 1, Len(sessions)) = sessions
                         /\ SessKey(sessions'[Len(sessions')]) = key
                    ELSE /\ Len(sessions') = Len(sessions)
                         /\ \A i \in 1..Len(sessions) :
                              /\ SessKey(sessions'[i]) = SessKey(sessions[i])
                              /\ i \notin m => sessions'[i] = sessions[i]
                              /\ ~Supplied(f.start) =>
                                   sessions'[i].started_at = sessions[i].started_at
                              /\ ~Supplied(f.end) =>
                                   sessions'[i].ended_at = sessions[i].ended_at
                              /\ ~(Supplied(f.start) /\ Supplied(f.end)) =>
                                   sessions'[i].duration_seconds
                                     = sessions[i].duration_seconds]_vars

\* a session saved twice on the same day: the second save supplied a start
\* time only, so the end time and the duration of the first save remain
C13_Witness ==
  /\ Len(sessions) = 1
  /\ nposts = 2
  /\ today = 2
  /\ SessKey(sessions[1]) = <<1, 4, 2>>
  /\ sessions[1].started_at = 39600 /\ sessions[1].ended_at = 39600
  /\ sessions[1].duration_seconds = 3600


\* ------------------------------------------- merge before the progression
\* C14: when a week submission for week w completes, every row of week w has
\* new_load equal to compute_new_load of the fields the row holds after the
\* merge (load_last, rep_high, increment, category, sets, s1, s2, s3, and s3
\* as the AMRAP count of an accessory row), also the rows the form named no
\* field of.
C14_MergeThenProgress ==
  [][\A w \in SeedWeeks : \A f \in WeekForms :
       (/\ nposts' # nposts
        /\ WeekPost(w, f)
        /\ ~WeekPostResult(log, sessions, progress, st, today, w,
                           Rendered(f, log, w)).raised) =>
         \A i \in 1..Len(log') :
           log'[i].week = w =>
             log'[i].new_load =
               compute_new_load(
                 [load_last |-> log'[i].load_last, rep_high |-> log'[i].rep_high,
                  increment |-> log'[i].increment, category |-> log'[i].category,
                  sets |-> log'[i].sets, s1 |-> log'[i].s1, s2 |-> log'[i].s2,
                  s3 |-> log'[i].s3,
                  amrap |-> IF log'[i].category = "accessory"
                            THEN log'[i].s3 ELSE None])]_vars

\* week 1 after a submission: the squat row took load and reps from the form,
\* the hip thrust row got no field and kept its seeded load
C14_Witness ==
  /\ nposts > 0
  /\ \E i \in 1..Len(log) :
       /\ log[i].week = 1 /\ log[i].exercise = "Back Squat"
       /\ log[i].load_last = 10000 /\ log[i].s3 = 8 /\ log[i].new_load = 10500
  /\ \E i \in 1..Len(log) :
       /\ log[i].week = 1 /\ log[i].exercise = "Hip Thrust"
       /\ log[i].s1 = None /\ log[i].load_last = 5500 /\ log[i].new_load = 5500


\* C15: for an accessory row the AMRAP count of a week submission is the last
\* logged set: a 2-set accessory row with s1 and s2 logged, s3 absent and
\* s2 >= amrap_threshold(repHigh) is stored with the increased load
\* roundToIncrement(loadUsed + increment).
C15_LastSetIsAmrap ==
  [][\A w \in SeedWeeks : \A f \in WeekForms :
       (/\ nposts' # nposts
        /\ WeekPost(w, f)
        /\ ~WeekPostResult(log, sessions, progress, st, today, w,
                           Rendered(f, log, w)).raised) =>
         \A i \in 1..Len(log') :
           (/\ log'[i].week = w
            /\ log'[i].category = "accessory" /\ log'[i].sets = 2
            /\ log'[i].load_last # None
            /\ log'[i].s1 # None /\ log'[i].s2 # None /\ log'[i].s3 = None
            /\ log'[i].s2 >= ThresholdTable(log'[i].rep_high)) =>
             log'[i].new_load =
               PyRound(log'[i].load_last + log'[i].increment, 250) * 250]_vars


\* ------------------------------------------------- loads stay present
\* C16: in every state of the store a log row with a next-week load has a
\* used load, and no request makes a present used load absent (rows keep
\* their place in the store).
C16_NewLoadHasLoad ==
  /\ [](\A i \in 1..Len(log) :
          log[i].new_load # None => log[i].load_last # None)
  /\ [][\A i \in 1..Len(log) :
          log[i].load_last # None =>
            /\ i <= Len(log')
            /\ Key(log'[i]) = Key(log[i])
            /\ log'[i].load_last # None]_vars

\* a squat row whose load a first submission set and a second submission,
\* with unparsable load text, left in place
C16_Witness ==
  /\ nposts = 2
  /\ \E i \in 1..Len(log) :
       /\ log[i].exercise = "Back Squat"
       /\ log[i].load_last = 10000 /\ log[i].s1 = None /\ log[i].s2 = 8
       /\ log[i].new_load = 10000

====
